---- MODULE Spec2Model ----
(***************************************************************************)
(* Model of the agent / tool-dispatch runtime and the chat protocol        *)
(* handlers of the Do / Flowstate prototype.                               *)
(*                                                                         *)
(*   SpecChat  : one FlowstateChat connection (on_connect task, receive    *)
(*               loop, nudge tasks and the positions of its model calls).  *)
(*   SpecAgent : one Agent instance, its history and the send_prompt calls *)
(*               made on it by concurrent callers.                         *)
(*   SpecTool  : one call through Agent.__create_tool.run_tool.            *)
(*   SpecLearn : the receive loop of learn_more_chat_websocket.            *)
(*   SpecBase  : one LoginChat connection served by BaseChat.listen.      *)
(*   SpecClass : the definition and construction of one Agent subclass,    *)
(*               and of a sibling and a subclass of it.                    *)
(*   SpecAuth  : one login or access token, generated, possibly altered,   *)
(*               and verified (auth.py).                                   *)
(*   SpecStore : the projects and tasks tables under the DoAgent tools and *)
(*               complete_task messages of two users.                      *)
(***************************************************************************)
EXTENDS Integers, Sequences, FiniteSets, TLC

VARIABLES
    \* ---- FlowstateChat (one connection) ----
    project,      \* self.project is set (project_id path parameter resolved)
    nprojects,    \* len(db.get_projects_by_user(user_id)) seen by on_connect
    agent,        \* self.agent has been constructed
    ocPc,         \* position of the on_connect task
    lPc,          \* position of the listen coroutine
    lMsg,         \* the message the receive loop is handling
    lExc,         \* exception that took listen into its inner except block
    tasks,        \* state of every nudge task ever created on the connection
    nudge_task,   \* self.nudge_task (0 = None)
    turnOut,      \* events listen has sent since it last received a message
    logged,       \* listen's outer handler has logged an exception
    wsApp,        \* websocket.application_state
    clientGone,   \* the client has disconnected
    dbTasks,      \* ids of the tasks in storage
    msgs,         \* number of inbound frames consumed so far
    arrival,      \* self.nudge_task and its state when the current message arrived
    user_id,      \* self.user_id is set (the session token verified)
    closes,       \* websocket.close() calls made by the server
    dbLog,        \* arguments of the db.delete_task calls made, in order
    \* ---- one run_tool call ----
    tPc, tTool, tArgs, tBody, tChan, tBound, tLabel, tReported, tBodyRuns, tResult, tRaised,
    \* ---- learn_more_chat_websocket ----
    mPc, mFail, mOut, mLogged, mClosed, mWs, mMsgs,
    \* ---- one Agent instance and the send_prompt calls made on it ----
    history,      \* self.history
    calls,        \* per caller: position, prompt and agent.run attempts of its call
    nCalls,       \* send_prompt calls started so far
    \* ---- one LoginChat connection served by BaseChat.listen ----
    bPc,          \* position of BaseChat.listen
    bHandlers,    \* state of every handler task created by listen
    bMsgs,        \* inbound frames consumed so far
    bWs,          \* websocket.application_state
    bGone,        \* the client has disconnected
    bOc,          \* position of the LoginChat.on_connect task
    \* ---- the definition and construction of one Agent subclass ----
    kDecl,        \* names of the attributes of the class body, in declaration order
    kDoc,         \* the docstring of the class body
    kPc,          \* declared, defined, constructed or raised
    kTools,       \* cls.tools
    kPrompt,      \* cls.system_prompt
    kErr,         \* the exception raised, if any
    kSub,         \* what was defined after the class: nothing, a subclass of it, or a sibling
    \* ---- one token issued by flowstate.auth and later presented for verification ----
    aPc,          \* start, issued, presented or verified
    aKind,        \* access token or login token
    aSubject,     \* the user id or email the token is issued for
    aKey,         \* the secret key the token is generated with
    aStamp,       \* the timestamp put into an access token
    aAlter,       \* what was done to the token before it is presented
    aToken,       \* the token, as issued and then as presented
    aVKey,        \* the secret key given to the verify function
    aResult,      \* what the verify function returned
    aErr,         \* the exception the verify function raised, if any
    \* ---- storage (FlowstateDB) and the agents / connections of two users ----
    sProjects,    \* rows of the projects table
    sTasks,       \* rows of the tasks table
    sNextProject, \* next AUTOINCREMENT id of the projects table
    sNextTask,    \* next AUTOINCREMENT id of the tasks table
    sCurrent,     \* per user: self.project_id of the user's agent (0 = None)
    sLast         \* the operation performed last, and the user who performed it

chatVars == <<project, nprojects, agent, ocPc, lPc, lMsg, lExc, tasks, nudge_task,
              turnOut, logged, wsApp, clientGone, dbTasks, msgs, arrival,
              user_id, closes, dbLog>>
toolVars == <<tPc, tTool, tArgs, tBody, tChan, tBound, tLabel, tReported, tBodyRuns,
              tResult, tRaised>>
learnVars == <<mPc, mFail, mOut, mLogged, mClosed, mWs, mMsgs>>
agentVars == <<history, calls, nCalls>>
baseVars == <<bPc, bHandlers, bMsgs, bWs, bGone, bOc>>
classVars == <<kDecl, kDoc, kPc, kTools, kPrompt, kErr, kSub>>
authVars == <<aPc, aKind, aSubject, aKey, aStamp, aAlter, aToken, aVKey, aResult, aErr>>
storeVars == <<sProjects, sTasks, sNextProject, sNextTask, sCurrent, sLast>>
vars == <<chatVars, toolVars, learnVars, agentVars, baseVars, classVars, authVars,
         storeVars>>

----------------------------------------------------------------------------
\* Bounds of the model.
MaxTasks == 3       \* nudge tasks created on one connection
MaxMsgs == 2        \* inbound frames consumed by one connection
MaxUsing == 2       \* tools reported during one agent.send_prompt call of listen

----------------------------------------------------------------------------
\* Agent.send_prompt (base_agent.py): one agent.run call, then history.extend.

\* response.new_messages() of one exchange: the request and the response.
NewMessages(prompt) == << <<"request", prompt>>, <<"response", prompt>> >>

\* How many times send_prompt invokes agent.run for one prompt.
RunAttempts == 1

\* agent.run returned: self.history.extend(response.new_messages()).
SendPromptSuccess(h, prompt) == h \o NewMessages(prompt)

\* Faulty variant, for comparison: the prompt is appended before the model call is known to succeed.
SendPromptFailurePartial(h, prompt) == h \o << <<"request", prompt>> >>

\* agent.run raised or was cancelled: the extend statement is never reached.
SendPromptFailure(h, prompt) == h

IsPrefix(s, t) == Len(s) <= Len(t) /\ SubSeq(t, 1, Len(s)) = s

----------------------------------------------------------------------------
\* One Agent instance used by several callers (for a FlowstateChat connection:
\* the on_connect task, the receive loop and the nudge tasks).

MaxCallers == 2     \* tasks calling send_prompt on the same agent
MaxCalls == 3       \* send_prompt calls made on the agent

CallerIds == 1..MaxCallers

IdleCall == [pc |-> "idle", prompt |-> "none", attempts |-> 0]

\* send_prompt is entered and awaits self.agent.run(prompt, message_history=self.history).
A_Call(c, p) ==
    /\ calls[c].pc # "running" /\ nCalls < MaxCalls
    /\ calls' = [calls EXCEPT ![c] = [pc |-> "running", prompt |-> p, attempts |-> RunAttempts]]
    /\ nCalls' = nCalls + 1
    /\ UNCHANGED history
    /\ UNCHANGED <<chatVars, toolVars, learnVars, baseVars, classVars, authVars, storeVars>>

\* agent.run returned: history is extended and the output returned.
A_RunOk(c) ==
    /\ calls[c].pc = "running"
    /\ history' = SendPromptSuccess(history, calls[c].prompt)
    /\ calls' = [calls EXCEPT ![c].pc = "returned"]
    /\ UNCHANGED nCalls
    /\ UNCHANGED <<chatVars, toolVars, learnVars, baseVars, classVars, authVars, storeVars>>

\* agent.run raised: the exception leaves send_prompt.
A_RunRaise(c) ==
    /\ calls[c].pc = "running"
    /\ history' = SendPromptFailure(history, calls[c].prompt)
    /\ calls' = [calls EXCEPT ![c].pc = "raised"]
    /\ UNCHANGED nCalls
    /\ UNCHANGED <<chatVars, toolVars, learnVars, baseVars, classVars, authVars, storeVars>>

\* The calling task was cancelled while awaiting agent.run.
A_RunCancel(c) ==
    /\ calls[c].pc = "running"
    /\ history' = SendPromptFailure(history, calls[c].prompt)
    /\ calls' = [calls EXCEPT ![c].pc = "cancelled"]
    /\ UNCHANGED nCalls
    /\ UNCHANGED <<chatVars, toolVars, learnVars, baseVars, classVars, authVars, storeVars>>

----------------------------------------------------------------------------
\* Nudge tasks (asyncio tasks running FlowstateChat.nudge_user).

TaskIds == 1..MaxTasks
TaskLive == {"sleep", "typing", "model", "reply"}

\* A task that is scheduled and has not fired yet: it is in asyncio.sleep.
Pending(ts) == {i \in TaskIds : ts[i] = "sleep"}

CanCreate(ts) == \E i \in TaskIds : ts[i] = "none"
NewId(ts) == CHOOSE i \in TaskIds : ts[i] = "none" /\ \A j \in TaskIds : ts[j] = "none" => i <= j

\* self.loop.create_task(self.nudge_user())
CreateTask(ts) == [ts EXCEPT ![NewId(ts)] = "sleep"]

\* Faulty variant, for comparison: cancel() has no effect on the task.
CancelNudgeIgnored(ts, ref) == ts

\* if self.nudge_task and not self.nudge_task.done(): self.nudge_task.cancel()
\* The CancelledError is delivered at the task's current await, where
\* nudge_user's except clause swallows it: the task runs no further statement.
CancelNudge(ts, ref) ==
    IF ref # 0 /\ ts[ref] \in TaskLive THEN [ts EXCEPT ![ref] = "cancelled"] ELSE ts

\* Outcomes of awaiting websocket.send_json in the connection's present state.
SendOutcomes ==
    IF wsApp = "disconnected" THEN {"raise"}
    ELSE IF clientGone THEN {"ok", "raise"}
    ELSE {"ok"}

\* Number of agent.send_prompt calls of the connection that are inside agent.run.
InFlight ==
    (IF ocPc = "model" THEN 1 ELSE 0)
    + (IF lPc \in {"p_model", "t_model"} THEN 1 ELSE 0)
    + Cardinality({i \in TaskIds : tasks[i] = "model"})

\* Ids of the tasks in storage when the connection is made.
StoredTaskIds == {1, 2}

\* Inbound frames: k is what the frame decodes to, tid the task_id it carries
\* (0: missing or empty).
Frames ==
    {[k |-> kk, tid |-> 0] : kk \in {"prompt", "prompt_noprompt", "unknown", "nokind", "text"}}
    \cup {[k |-> "complete_task", tid |-> t] : t \in {0} \cup StoredTaskIds}

NoMsg == [k |-> "none", tid |-> 0]
NoArrival == [ref |-> 0, pending |-> FALSE]

\* self.nudge_task and whether it was scheduled-and-not-fired, at a receive.
Arrival == [ref |-> nudge_task, pending |-> nudge_task # 0 /\ tasks[nudge_task] = "sleep"]

\* The client's view after one more awaited send_json: the events sent since
\* the last receive, in the order of the sends.
SendEventFirst(out, ev) == <<ev>> \o out
SendEvent(out, ev) == Append(out, ev)

\* The error event listen sends for a JSON message it has no handler for.
ErrorEventFormat(k) == "error_format"
ErrorEvent(k) == IF k = "nokind" THEN "error_format" ELSE "error_type"

\* Number of using events among the events sent.
UsingCount(out) == Cardinality({n \in 1..Len(out) : out[n] = "using"})

----------------------------------------------------------------------------
\* FlowstateChat.on_connect, run as its own task by BaseChat.create_chat.

\* on_connect without a verified user: await self.websocket.close(code=401),
\* whatever the state of the socket, and return. Starlette marks the
\* application side disconnected when the close message is sent.
OC_Unauthorized ==
    /\ ocPc = "start" /\ ~user_id
    /\ closes' = closes + 1
    /\ wsApp' = "disconnected"
    /\ ocPc' = IF wsApp = "disconnected" THEN "failed" ELSE "done"
    /\ UNCHANGED <<project, nprojects, agent, lPc, lMsg, lExc, tasks, nudge_task, turnOut,
                   logged, clientGone, dbTasks, msgs, arrival, user_id, dbLog>>
    /\ UNCHANGED <<toolVars, learnVars, agentVars, baseVars, classVars, authVars, storeVars>>

\* on_connect with a project: agent built, no model call, nudge task started.
OC_StartProject ==
    /\ ocPc = "start" /\ user_id /\ project /\ CanCreate(tasks)
    /\ agent' = TRUE
    /\ tasks' = CreateTask(tasks)
    /\ nudge_task' = NewId(tasks)
    /\ ocPc' = "done"
    /\ UNCHANGED <<project, nprojects, lPc, lMsg, lExc, turnOut, logged, wsApp,
                   clientGone, dbTasks, msgs, arrival>>
    /\ UNCHANGED <<user_id, closes, dbLog>>
    /\ UNCHANGED <<toolVars, learnVars, agentVars, baseVars, classVars, authVars, storeVars>>

\* on_connect without a project: send_welcome_message / send_next_task begin
\* by sending the typing command.
OC_StartNoProject ==
    /\ ocPc = "start" /\ user_id /\ ~project
    /\ agent' = TRUE
    /\ ocPc' = "typing"
    /\ UNCHANGED <<project, nprojects, lPc, lMsg, lExc, tasks, nudge_task, turnOut,
                   logged, wsApp, clientGone, dbTasks, msgs, arrival>>
    /\ UNCHANGED <<user_id, closes, dbLog>>
    /\ UNCHANGED <<toolVars, learnVars, agentVars, baseVars, classVars, authVars, storeVars>>

\* The typing send completed: agent.send_prompt is called (or the send raised).
OC_TypingDone ==
    /\ ocPc = "typing"
    /\ \E o \in SendOutcomes :
        IF o = "ok"
        THEN /\ ocPc' = "model"
        ELSE /\ ocPc' = "failed"
    /\ UNCHANGED <<project, nprojects, agent, lPc, lMsg, lExc, tasks, nudge_task, turnOut, logged, wsApp, clientGone, dbTasks, msgs, arrival>>
    /\ UNCHANGED <<user_id, closes, dbLog>>
    /\ UNCHANGED <<toolVars, learnVars, agentVars, baseVars, classVars, authVars, storeVars>>

OC_ModelOk ==
    /\ ocPc = "model"
    /\ ocPc' = "sleep"
    /\ UNCHANGED <<project, nprojects, agent, lPc, lMsg, lExc, tasks, nudge_task, turnOut,
                   logged, wsApp, clientGone, dbTasks, msgs, arrival>>
    /\ UNCHANGED <<user_id, closes, dbLog>>
    /\ UNCHANGED <<toolVars, learnVars, agentVars, baseVars, classVars, authVars, storeVars>>

\* The model call raised: the exception ends the on_connect task.
OC_ModelFail ==
    /\ ocPc = "model"
    /\ ocPc' = "failed"
    /\ UNCHANGED <<project, nprojects, agent, lPc, lMsg, lExc, tasks, nudge_task, turnOut,
                   logged, wsApp, clientGone, dbTasks, msgs, arrival>>
    /\ UNCHANGED <<user_id, closes, dbLog>>
    /\ UNCHANGED <<toolVars, learnVars, agentVars, baseVars, classVars, authVars, storeVars>>

\* The optional asyncio.sleep is over: the reply send is started.
OC_SleepDone ==
    /\ ocPc = "sleep"
    /\ ocPc' = "reply"
    /\ UNCHANGED <<project, nprojects, agent, lPc, lMsg, lExc, tasks, nudge_task, turnOut, logged, wsApp, clientGone, dbTasks, msgs, arrival>>
    /\ UNCHANGED <<user_id, closes, dbLog>>
    /\ UNCHANGED <<toolVars, learnVars, agentVars, baseVars, classVars, authVars, storeVars>>

\* The reply send completed: self.nudge_task = create_task(nudge_user()).
OC_ReplyDone ==
    /\ ocPc = "reply"
    /\ \E o \in SendOutcomes :
        IF o = "ok"
        THEN /\ CanCreate(tasks)
             /\ tasks' = CreateTask(tasks)
             /\ nudge_task' = NewId(tasks)
             /\ ocPc' = "done"
        ELSE /\ ocPc' = "failed"
             /\ UNCHANGED <<tasks, nudge_task>>
    /\ UNCHANGED <<project, nprojects, agent, lPc, lMsg, lExc, turnOut, logged,
                   wsApp, clientGone, dbTasks, msgs, arrival>>
    /\ UNCHANGED <<user_id, closes, dbLog>>
    /\ UNCHANGED <<toolVars, learnVars, agentVars, baseVars, classVars, authVars, storeVars>>

----------------------------------------------------------------------------
\* FlowstateChat.nudge_user, one asyncio task per call.

\* asyncio.sleep(random.randint(60, 300)) is over: the typing send is started.
N_Fire(i) ==
    /\ tasks[i] = "sleep"
    /\ tasks' = [tasks EXCEPT ![i] = "typing"]
    /\ UNCHANGED <<project, nprojects, agent, ocPc, lPc, lMsg, lExc, nudge_task, turnOut, logged, wsApp, clientGone, dbTasks, msgs, arrival>>
    /\ UNCHANGED <<user_id, closes, dbLog>>
    /\ UNCHANGED <<toolVars, learnVars, agentVars, baseVars, classVars, authVars, storeVars>>

N_TypingDone(i) ==
    /\ tasks[i] = "typing"
    /\ \E o \in SendOutcomes :
        IF o = "ok"
        THEN /\ agent
             /\ tasks' = [tasks EXCEPT ![i] = "model"]
        ELSE /\ tasks' = [tasks EXCEPT ![i] = "failed"]
    /\ UNCHANGED <<project, nprojects, agent, ocPc, lPc, lMsg, lExc, nudge_task, turnOut, logged, wsApp, clientGone, dbTasks, msgs, arrival>>
    /\ UNCHANGED <<user_id, closes, dbLog>>
    /\ UNCHANGED <<toolVars, learnVars, agentVars, baseVars, classVars, authVars, storeVars>>

N_ModelOk(i) ==
    /\ tasks[i] = "model"
    /\ tasks' = [tasks EXCEPT ![i] = "reply"]
    /\ UNCHANGED <<project, nprojects, agent, ocPc, lPc, lMsg, lExc, nudge_task, turnOut,
                   logged, wsApp, clientGone, dbTasks, msgs, arrival>>
    /\ UNCHANGED <<user_id, closes, dbLog>>
    /\ UNCHANGED <<toolVars, learnVars, agentVars, baseVars, classVars, authVars, storeVars>>

\* The model call raised: not a CancelledError, so it ends the task.
N_ModelFail(i) ==
    /\ tasks[i] = "model"
    /\ tasks' = [tasks EXCEPT ![i] = "failed"]
    /\ UNCHANGED <<project, nprojects, agent, ocPc, lPc, lMsg, lExc, nudge_task, turnOut,
                   logged, wsApp, clientGone, dbTasks, msgs, arrival>>
    /\ UNCHANGED <<user_id, closes, dbLog>>
    /\ UNCHANGED <<toolVars, learnVars, agentVars, baseVars, classVars, authVars, storeVars>>

\* The reply send completed: the task schedules its successor and ends.
N_ReplyDone(i) ==
    /\ tasks[i] = "reply"
    /\ \E o \in SendOutcomes :
        IF o = "ok"
        THEN /\ CanCreate(tasks)
             /\ tasks' = CreateTask([tasks EXCEPT ![i] = "done"])
             /\ nudge_task' = NewId(tasks)
        ELSE /\ tasks' = [tasks EXCEPT ![i] = "failed"]
             /\ UNCHANGED nudge_task
    /\ UNCHANGED <<project, nprojects, agent, ocPc, lPc, lMsg, lExc, turnOut,
                   logged, wsApp, clientGone, dbTasks, msgs, arrival>>
    /\ UNCHANGED <<user_id, closes, dbLog>>
    /\ UNCHANGED <<toolVars, learnVars, agentVars, baseVars, classVars, authVars, storeVars>>

----------------------------------------------------------------------------
\* FlowstateChat.listen and the handlers it awaits.

\* listen's outer "except Exception" and "finally": the exception is logged,
\* the nudge task cancelled, the socket closed unless already disconnected.
Finalise ==
    /\ logged' = TRUE
    /\ tasks' = CancelNudge(tasks, nudge_task)
    /\ lPc' = IF wsApp # "disconnected" THEN "closing" ELSE "done"
    /\ closes' = IF wsApp # "disconnected" THEN closes + 1 ELSE closes
    /\ wsApp' = "disconnected"

\* FlowstateDB.delete_task: DELETE FROM tasks WHERE id = ?
DeleteTaskAll(stored, id) == {}
DeleteTask(stored, id) == stored \ {id}

\* receive_json returned {type: "complete_task", task_id: t} with a usable
\* task_id: complete_task_handler runs to its end without suspending.
L_RecvCompleteTask(f) ==
    /\ lPc = "recv" /\ ~clientGone /\ msgs < MaxMsgs
    /\ f.k = "complete_task" /\ f.tid # 0
    /\ CanCreate(tasks)
    /\ msgs' = msgs + 1 /\ lMsg' = f /\ turnOut' = <<>> /\ arrival' = NoArrival
    /\ dbLog' = Append(dbLog, f.tid)
    /\ dbTasks' = DeleteTask(dbTasks, f.tid)
    /\ tasks' = CreateTask(CancelNudge(tasks, nudge_task))
    /\ nudge_task' = NewId(tasks)
    /\ UNCHANGED <<project, nprojects, agent, ocPc, lPc, lExc, logged, wsApp, clientGone>>
    /\ UNCHANGED <<user_id, closes>>
    /\ UNCHANGED <<toolVars, learnVars, agentVars, baseVars, classVars, authVars, storeVars>>

\* complete_task without a task_id: the handler does nothing.
L_RecvCompleteTaskNoId(f) ==
    /\ lPc = "recv" /\ ~clientGone /\ msgs < MaxMsgs
    /\ f.k = "complete_task" /\ f.tid = 0
    /\ msgs' = msgs + 1 /\ lMsg' = NoMsg /\ turnOut' = <<>> /\ arrival' = NoArrival
    /\ UNCHANGED <<project, nprojects, agent, ocPc, lPc, lExc, tasks, nudge_task, logged, wsApp, clientGone, dbTasks>>
    /\ UNCHANGED <<user_id, closes, dbLog>>
    /\ UNCHANGED <<toolVars, learnVars, agentVars, baseVars, classVars, authVars, storeVars>>

\* A message of kind "prompt": prompt_handler cancels the nudge and starts the
\* typing send.
L_RecvPrompt(f) ==
    /\ lPc = "recv" /\ ~clientGone /\ msgs < MaxMsgs
    /\ f.k \in {"prompt", "prompt_noprompt"}
    /\ msgs' = msgs + 1 /\ lMsg' = f /\ turnOut' = <<>> /\ arrival' = Arrival
    /\ tasks' = CancelNudge(tasks, nudge_task)
    /\ lPc' = "p_typing"
    /\ UNCHANGED <<project, nprojects, agent, ocPc, lExc, nudge_task, logged, wsApp,
                   clientGone, dbTasks>>
    /\ UNCHANGED <<user_id, closes, dbLog>>
    /\ UNCHANGED <<toolVars, learnVars, agentVars, baseVars, classVars, authVars, storeVars>>

\* A JSON message without "kind", or with a kind that has no handler: the
\* error event is sent; nothing else is done.
L_RecvInvalid(f) ==
    /\ lPc = "recv" /\ ~clientGone /\ msgs < MaxMsgs
    /\ f.k \in {"unknown", "nokind"}
    /\ msgs' = msgs + 1 /\ lMsg' = f /\ turnOut' = <<>> /\ arrival' = Arrival
    /\ lPc' = "e_send"
    /\ UNCHANGED <<project, nprojects, agent, ocPc, lExc, tasks, nudge_task, logged, wsApp, clientGone, dbTasks>>
    /\ UNCHANGED <<user_id, closes, dbLog>>
    /\ UNCHANGED <<toolVars, learnVars, agentVars, baseVars, classVars, authVars, storeVars>>

\* A frame that is not JSON: receive_json consumes it and raises; the inner
\* except block is entered and awaits receive_text.
L_RecvRawText(f) ==
    /\ lPc = "recv" /\ ~clientGone /\ msgs < MaxMsgs
    /\ f.k = "text"
    /\ msgs' = msgs + 1 /\ lMsg' = f /\ turnOut' = <<>> /\ arrival' = Arrival
    /\ lExc' = "parse"
    /\ lPc' = "recv_text"
    /\ UNCHANGED <<project, nprojects, agent, ocPc, tasks, nudge_task, logged,
                   wsApp, clientGone, dbTasks>>
    /\ UNCHANGED <<user_id, closes, dbLog>>
    /\ UNCHANGED <<toolVars, learnVars, agentVars, baseVars, classVars, authVars, storeVars>>

\* The error event was sent (or the send raised).
L_ErrSendDone ==
    /\ lPc = "e_send"
    /\ \E o \in SendOutcomes :
        IF o = "ok"
        THEN /\ turnOut' = SendEvent(turnOut, ErrorEvent(lMsg.k))
             /\ lPc' = "recv"
             /\ lMsg' = NoMsg /\ arrival' = NoArrival
             /\ UNCHANGED lExc
        ELSE /\ lExc' = "send" /\ lPc' = "recv_text"
             /\ UNCHANGED <<turnOut, lMsg, arrival>>
    /\ UNCHANGED <<project, nprojects, agent, ocPc, tasks, nudge_task, logged, wsApp, clientGone, dbTasks, msgs>>
    /\ UNCHANGED <<user_id, closes, dbLog>>
    /\ UNCHANGED <<toolVars, learnVars, agentVars, baseVars, classVars, authVars, storeVars>>

\* prompt_handler: the typing send completed; data["prompt"] is read and
\* agent.send_prompt called.
L_PTypingDone ==
    /\ lPc = "p_typing"
    /\ \E o \in SendOutcomes :
        IF o = "ok"
        THEN /\ agent
             /\ turnOut' = SendEvent(turnOut, "typing")
             /\ IF lMsg.k = "prompt_noprompt"
                THEN /\ lExc' = "keyerror" /\ lPc' = "recv_text"
                        ELSE /\ lPc' = "p_model"
                     /\ UNCHANGED lExc
        ELSE /\ lExc' = "send" /\ lPc' = "recv_text"
             /\ UNCHANGED <<turnOut>>
    /\ UNCHANGED <<project, nprojects, agent, ocPc, lMsg, tasks, nudge_task, logged, wsApp, clientGone, dbTasks, msgs, arrival>>
    /\ UNCHANGED <<user_id, closes, dbLog>>
    /\ UNCHANGED <<toolVars, learnVars, agentVars, baseVars, classVars, authVars, storeVars>>

\* prompt_handler: during agent.run a tool is invoked; run_tool awaits
\* _report_tool, that is FlowstateChat.send_using, before the tool body. A
\* send that raises leaves run_tool and agent.run as an exception.
L_PUsing ==
    /\ lPc = "p_model" /\ UsingCount(turnOut) < MaxUsing
    /\ \E o \in SendOutcomes :
        IF o = "ok"
        THEN /\ turnOut' = SendEvent(turnOut, "using")
             /\ UNCHANGED <<lPc, lExc, logged, tasks, wsApp, closes>>
        ELSE /\ lExc' = "send"
             /\ lPc' = "recv_text"
             /\ UNCHANGED <<logged, tasks, wsApp, closes>>
             /\ UNCHANGED turnOut
    /\ UNCHANGED <<project, nprojects, agent, ocPc, lMsg, nudge_task, clientGone, dbTasks,
                   msgs, arrival, user_id, dbLog>>
    /\ UNCHANGED <<toolVars, learnVars, agentVars, baseVars, classVars, authVars, storeVars>>

\* prompt_handler: agent.send_prompt returned; the reply send is started.
L_PModelOk ==
    /\ lPc = "p_model"
    /\ lPc' = "p_reply"
    /\ UNCHANGED <<project, nprojects, agent, ocPc, lMsg, lExc, tasks, nudge_task, turnOut,
                   logged, wsApp, clientGone, dbTasks, msgs, arrival>>
    /\ UNCHANGED <<user_id, closes, dbLog>>
    /\ UNCHANGED <<toolVars, learnVars, agentVars, baseVars, classVars, authVars, storeVars>>

\* prompt_handler: agent.send_prompt raised. The exception leaves the handler
\* and is caught by listen's inner "except Exception", which awaits receive_text.
L_PModelFail ==
    /\ lPc = "p_model"
    /\ lExc' = "model"
    /\ lPc' = "recv_text"
    /\ UNCHANGED <<project, nprojects, agent, ocPc, lMsg, tasks, nudge_task, turnOut,
                   logged, wsApp, clientGone, dbTasks, msgs, arrival>>
    /\ UNCHANGED <<user_id, closes, dbLog>>
    /\ UNCHANGED <<toolVars, learnVars, agentVars, baseVars, classVars, authVars, storeVars>>

\* prompt_handler: the reply send completed; the next nudge is scheduled.
L_PReplyDone ==
    /\ lPc = "p_reply"
    /\ \E o \in SendOutcomes :
        IF o = "ok"
        THEN /\ CanCreate(tasks)
             /\ turnOut' = SendEvent(turnOut, "reply")
             /\ tasks' = CreateTask(tasks)
             /\ nudge_task' = NewId(tasks)
             /\ lPc' = "recv"
             /\ lMsg' = NoMsg /\ arrival' = NoArrival
             /\ UNCHANGED lExc
        ELSE /\ lExc' = "send" /\ lPc' = "recv_text"
             /\ UNCHANGED <<turnOut, tasks, nudge_task, lMsg, arrival>>
    /\ UNCHANGED <<project, nprojects, agent, ocPc, logged, wsApp,
                   clientGone, dbTasks, msgs>>
    /\ UNCHANGED <<user_id, closes, dbLog>>
    /\ UNCHANGED <<toolVars, learnVars, agentVars, baseVars, classVars, authVars, storeVars>>

\* Inner except block: receive_text returned the next frame, whatever it is;
\* the nudge is cancelled and the typing send started.
L_RecvText(f) ==
    /\ lPc = "recv_text" /\ ~clientGone /\ msgs < MaxMsgs
    /\ msgs' = msgs + 1 /\ lMsg' = f /\ turnOut' = <<>> /\ arrival' = Arrival
    /\ tasks' = CancelNudge(tasks, nudge_task)
    /\ lPc' = "t_typing"
    /\ UNCHANGED <<project, nprojects, agent, ocPc, lExc, nudge_task, logged, wsApp,
                   clientGone, dbTasks>>
    /\ UNCHANGED <<user_id, closes, dbLog>>
    /\ UNCHANGED <<toolVars, learnVars, agentVars, baseVars, classVars, authVars, storeVars>>

\* Inner except block: typing sent, agent.send_prompt(data) called. An
\* exception here is raised inside the except block: it reaches the outer one.
L_TTypingDone ==
    /\ lPc = "t_typing"
    /\ \E o \in SendOutcomes :
        IF o = "ok"
        THEN /\ agent
             /\ turnOut' = SendEvent(turnOut, "typing")
             /\ lPc' = "t_model"
             /\ UNCHANGED <<lExc, logged, tasks, wsApp, closes>>
        ELSE /\ lExc' = "send"
             /\ Finalise
             /\ UNCHANGED <<turnOut>>
    /\ UNCHANGED <<project, nprojects, agent, ocPc, lMsg, nudge_task, clientGone, dbTasks,
                   msgs, arrival>>
    /\ UNCHANGED <<user_id, dbLog>>
    /\ UNCHANGED <<toolVars, learnVars, agentVars, baseVars, classVars, authVars, storeVars>>

\* Inner except block: during agent.run a tool is invoked; run_tool awaits
\* _report_tool, that is FlowstateChat.send_using, before the tool body. A
\* send that raises leaves run_tool and agent.run as an exception.
L_TUsing ==
    /\ lPc = "t_model" /\ UsingCount(turnOut) < MaxUsing
    /\ \E o \in SendOutcomes :
        IF o = "ok"
        THEN /\ turnOut' = SendEvent(turnOut, "using")
             /\ UNCHANGED <<lPc, lExc, logged, tasks, wsApp, closes>>
        ELSE /\ lExc' = "send"
             /\ Finalise
             /\ UNCHANGED turnOut
    /\ UNCHANGED <<project, nprojects, agent, ocPc, lMsg, nudge_task, clientGone, dbTasks,
                   msgs, arrival, user_id, dbLog>>
    /\ UNCHANGED <<toolVars, learnVars, agentVars, baseVars, classVars, authVars, storeVars>>

L_TModelOk ==
    /\ lPc = "t_model"
    /\ lPc' = "t_reply"
    /\ UNCHANGED <<project, nprojects, agent, ocPc, lMsg, lExc, tasks, nudge_task, turnOut,
                   logged, wsApp, clientGone, dbTasks, msgs, arrival>>
    /\ UNCHANGED <<user_id, closes, dbLog>>
    /\ UNCHANGED <<toolVars, learnVars, agentVars, baseVars, classVars, authVars, storeVars>>

\* agent.send_prompt raised inside the except block: logged by the outer
\* handler, and the connection is closed.
L_TModelFail ==
    /\ lPc = "t_model"
    /\ lExc' = "model"
    /\ Finalise
    /\ UNCHANGED <<project, nprojects, agent, ocPc, lMsg, nudge_task, turnOut, clientGone,
                   dbTasks, msgs, arrival>>
    /\ UNCHANGED <<user_id, dbLog>>
    /\ UNCHANGED <<toolVars, learnVars, agentVars, baseVars, classVars, authVars, storeVars>>

L_TReplyDone ==
    /\ lPc = "t_reply"
    /\ \E o \in SendOutcomes :
        IF o = "ok"
        THEN /\ CanCreate(tasks)
             /\ turnOut' = SendEvent(turnOut, "reply")
             /\ tasks' = CreateTask(tasks)
             /\ nudge_task' = NewId(tasks)
             /\ lPc' = "recv"
             /\ lMsg' = NoMsg /\ arrival' = NoArrival /\ lExc' = "none"
             /\ UNCHANGED <<logged, wsApp, closes>>
        ELSE /\ lExc' = "send"
             /\ Finalise
             /\ UNCHANGED <<turnOut, nudge_task, lMsg, arrival>>
    /\ UNCHANGED <<project, nprojects, agent, ocPc, clientGone, dbTasks, msgs>>
    /\ UNCHANGED <<user_id, dbLog>>
    /\ UNCHANGED <<toolVars, learnVars, agentVars, baseVars, classVars, authVars, storeVars>>

\* The client went away: receive_json / receive_text raise WebSocketDisconnect,
\* which ends in the outer handler (from "recv" through the inner except
\* block, whose receive_text raises at once).
L_Disconnected ==
    /\ lPc \in {"recv", "recv_text"} /\ clientGone
    /\ lExc' = "disconnect"
    /\ Finalise
    /\ UNCHANGED <<project, nprojects, agent, ocPc, lMsg, nudge_task, turnOut, clientGone,
                   dbTasks, msgs, arrival>>
    /\ UNCHANGED <<user_id, dbLog>>
    /\ UNCHANGED <<toolVars, learnVars, agentVars, baseVars, classVars, authVars, storeVars>>

\* await self.websocket.close() returned.
L_CloseDone ==
    /\ lPc = "closing"
    /\ lPc' = "done"
    /\ UNCHANGED <<project, nprojects, agent, ocPc, lMsg, lExc, tasks, nudge_task, turnOut, logged, wsApp, clientGone, dbTasks, msgs, arrival>>
    /\ UNCHANGED <<user_id, closes, dbLog>>
    /\ UNCHANGED <<toolVars, learnVars, agentVars, baseVars, classVars, authVars, storeVars>>

\* The client closes its end of the socket.
ClientDisconnect ==
    /\ ~clientGone
    /\ clientGone' = TRUE
    /\ UNCHANGED <<project, nprojects, agent, ocPc, lPc, lMsg, lExc, tasks, nudge_task,
                   turnOut, logged, wsApp, dbTasks, msgs, arrival>>
    /\ UNCHANGED <<user_id, closes, dbLog>>
    /\ UNCHANGED <<toolVars, learnVars, agentVars, baseVars, classVars, authVars, storeVars>>

----------------------------------------------------------------------------
\* Agent.__create_tool.run_tool: one call of a wrapped tool with keyword
\* arguments, as the model-calling collaborator makes it.

\* Parameters of the tool's signature (do_agent.py).
Params(t) ==
    CASE t = "create_project" -> {"name"}
      [] t = "delete_task_from_project" -> {"project_name", "task_title"}
      [] t = "create_task" -> {"project_name", "title", "priority"}
      [] t = "get_project_names" -> {}

\* Parameters without a default value.
Required(t) ==
    CASE t = "create_project" -> {"name"}
      [] t = "delete_task_from_project" -> {"project_name", "task_title"}
      [] t = "create_task" -> {}
      [] t = "get_project_names" -> {}

\* Replacement fields of the tool's nice_name template, set by @tool(...).
LabelFields(t) ==
    CASE t = "create_project" -> {"name"}
      [] t = "delete_task_from_project" -> {"task_title", "project_name"}
      [] t = "create_task" -> {"title", "project_name"}
      [] t = "get_project_names" -> {}

\* All keyword-argument sets the caller may pass.
ArgSets ==
    UNION {[S -> {"x", "y"}] :
           S \in SUBSET {"name", "project_name", "task_title", "title", "priority", "bogus"}}

\* The arguments are valid for the signature: signature.bind accepts them.
ValidArgs(t, a) == Required(t) \subseteq DOMAIN a /\ DOMAIN a \subseteq Params(t)

\* inspect.signature(tool).bind(**kwargs).arguments: the arguments passed,
\* without the defaults of the parameters that were omitted.
BindArguments(t, a) == a

\* nice_name.format(**arguments.arguments): defined when every replacement
\* field of the template is among the bound arguments (KeyError otherwise).
CanFormat(t, b) == LabelFields(t) \subseteq DOMAIN b
FormatLabel(t, b) == <<t, [f \in LabelFields(t) |-> b[f]]>>

\* What the tool body returns when it does not raise.
BodyResult(t, a) == <<"result", t, a>>

\* f"Error in tool {attr_name}: {e}"
ErrorString(t, e) == <<"Error in tool", t, e>>

\* Faulty variant, for comparison: no try / except around the tool body.
ToolOutcomePropagates(t, a, body) ==
    CASE body = "ok" -> [result |-> BodyResult(t, a), raised |-> "none"]
      [] body = "raise" -> [result |-> <<"none">>, raised |-> "Exception"]
      [] body = "cancel" -> [result |-> <<"none">>, raised |-> "CancelledError"]

\* try: return await tool(...)  except Exception as e: return the error string.
\* body is "ok", "raise" (the body raises an Exception) or "cancel" (the task
\* is cancelled while the body awaits: CancelledError is no Exception).
ToolOutcome(t, a, body) ==
    CASE body = "ok" -> [result |-> BodyResult(t, a), raised |-> "none"]
      [] body = "raise" -> [result |-> ErrorString(t, "boom"), raised |-> "none"]
      [] body = "cancel" -> [result |-> <<"none">>, raised |-> "CancelledError"]

\* signature.bind(*args, **kwargs), outside the try block.
T_Bind ==
    /\ tPc = "call"
    /\ IF ValidArgs(tTool, tArgs)
       THEN /\ tBound' = BindArguments(tTool, tArgs)
            /\ tPc' = "label"
            /\ UNCHANGED tRaised
       ELSE /\ tRaised' = "TypeError"
            /\ tPc' = "done"
            /\ UNCHANGED tBound
    /\ UNCHANGED <<tLabel, tReported, tBodyRuns, tResult>>
    /\ UNCHANGED <<tTool, tArgs, tBody, tChan>> /\ UNCHANGED <<chatVars, learnVars, agentVars, baseVars, classVars, authVars, storeVars>>

\* name = name_callable(**arguments.arguments), outside the try block.
T_Label ==
    /\ tPc = "label"
    /\ IF CanFormat(tTool, tBound)
       THEN /\ tLabel' = FormatLabel(tTool, tBound)
            /\ tPc' = "report"
            /\ UNCHANGED tRaised
       ELSE /\ tRaised' = "KeyError"
            /\ tPc' = "done"
            /\ UNCHANGED tLabel
    /\ UNCHANGED <<tBound, tReported, tBodyRuns, tResult>>
    /\ UNCHANGED <<tTool, tArgs, tBody, tChan>> /\ UNCHANGED <<chatVars, learnVars, agentVars, baseVars, classVars, authVars, storeVars>>

\* await self._report_tool(name): forwarded to the channel when one is attached.
T_Report ==
    /\ tPc = "report"
    /\ tReported' = IF tChan THEN Append(tReported, tLabel) ELSE tReported
    /\ tPc' = "body"
    /\ UNCHANGED <<tBound, tLabel, tBodyRuns, tResult, tRaised>>
    /\ UNCHANGED <<tTool, tArgs, tBody, tChan>> /\ UNCHANGED <<chatVars, learnVars, agentVars, baseVars, classVars, authVars, storeVars>>

\* The tool body runs inside try / except Exception.
T_Body ==
    /\ tPc = "body"
    /\ tBodyRuns' = tBodyRuns + 1
    /\ tResult' = ToolOutcome(tTool, tArgs, tBody).result
    /\ tRaised' = ToolOutcome(tTool, tArgs, tBody).raised
    /\ tPc' = "done"
    /\ UNCHANGED <<tBound, tLabel, tReported>>
    /\ UNCHANGED <<tTool, tArgs, tBody, tChan>> /\ UNCHANGED <<chatVars, learnVars, agentVars, baseVars, classVars, authVars, storeVars>>

----------------------------------------------------------------------------
\* learn_more_chat_websocket: the receive loop (learn_more.py lines 70-124).

MaxLearnMsgs == 3   \* frames received by one learn-more connection

\* Outcomes of websocket.send_json on the learn-more socket.
MSendOutcomes == IF mWs = "open" THEN {"ok"} ELSE {"ok", "raise"}

\* Failures of the model collaborator: an HTTP error status is raised as
\* pydantic_ai.exceptions.ModelHTTPError; a timeout is another exception type.
ModelFailures == {"http", "timeout"}

\* "except WebSocketDisconnect: closed = True": the loop ends; finally skips close.
MDisconnected ==
    /\ mClosed' = TRUE
    /\ mPc' = "done"

\* data = await websocket.receive_text(); agent.send_prompt(data) is called.
M_Recv ==
    /\ mPc = "recv" /\ mWs = "open" /\ mMsgs < MaxLearnMsgs
    /\ mMsgs' = mMsgs + 1
    /\ mOut' = <<>> /\ mFail' = "none" /\ mLogged' = FALSE
    /\ mPc' = "model"
    /\ UNCHANGED <<mClosed, mWs>>
    /\ UNCHANGED <<chatVars, toolVars, agentVars, baseVars, classVars, authVars, storeVars>>

\* receive_text raised WebSocketDisconnect.
M_RecvDisconnect ==
    /\ mPc = "recv" /\ mWs = "gone"
    /\ MDisconnected
    /\ UNCHANGED <<mFail, mOut, mLogged, mWs, mMsgs>>
    /\ UNCHANGED <<chatVars, toolVars, agentVars, baseVars, classVars, authVars, storeVars>>

\* agent.send_prompt returned: the cleaned reply is sent.
M_ModelOk ==
    /\ mPc = "model"
    /\ mPc' = "reply"
    /\ UNCHANGED <<mFail, mOut, mLogged, mClosed, mWs, mMsgs>>
    /\ UNCHANGED <<chatVars, toolVars, agentVars, baseVars, classVars, authVars, storeVars>>

\* agent.send_prompt raised. ModelHTTPError enters the inner handler, which
\* starts the apology send; any other exception leaves both try statements,
\* runs "finally" (close, as closed is False) and leaves the function.
M_ModelFail(kind) ==
    /\ mPc = "model"
    /\ mFail' = kind
    /\ IF kind = "http"
       THEN /\ mPc' = "apology"
            /\ UNCHANGED mWs
       ELSE /\ mPc' = "done"
            /\ mWs' = "server_closed"
    /\ UNCHANGED <<mOut, mLogged, mClosed, mMsgs>>
    /\ UNCHANGED <<chatVars, toolVars, agentVars, baseVars, classVars, authVars, storeVars>>

\* The apology reply was sent; the reload command send is started.
M_ApologyDone ==
    /\ mPc = "apology"
    /\ \E o \in MSendOutcomes :
        IF o = "ok"
        THEN /\ mOut' = Append(mOut, "apology")
             /\ mPc' = "reload"
             /\ UNCHANGED mClosed
        ELSE /\ MDisconnected
             /\ UNCHANGED mOut
    /\ UNCHANGED <<mFail, mLogged, mWs, mMsgs>>
    /\ UNCHANGED <<chatVars, toolVars, agentVars, baseVars, classVars, authVars, storeVars>>

\* The reload command was sent; "raise" re-raises into the outer
\* "except ModelHTTPError", which starts the "Oops" using send.
M_ReloadDone ==
    /\ mPc = "reload"
    /\ \E o \in MSendOutcomes :
        IF o = "ok"
        THEN /\ mOut' = Append(mOut, "reload")
             /\ mPc' = "oops"
             /\ UNCHANGED mClosed
        ELSE /\ MDisconnected
             /\ UNCHANGED mOut
    /\ UNCHANGED <<mFail, mLogged, mWs, mMsgs>>
    /\ UNCHANGED <<chatVars, toolVars, agentVars, baseVars, classVars, authVars, storeVars>>

\* The "Oops" using event was sent, print(e) runs, the loop goes on.
M_OopsDone ==
    /\ mPc = "oops"
    /\ \E o \in MSendOutcomes :
        IF o = "ok"
        THEN /\ mOut' = Append(mOut, "using_oops")
             /\ mLogged' = TRUE
             /\ mPc' = "recv"
             /\ UNCHANGED <<mClosed, mWs>>
        ELSE \* raised inside an except clause: it leaves the function via finally
             /\ mPc' = "done"
             /\ mWs' = "server_closed"
             /\ UNCHANGED <<mOut, mLogged, mClosed>>
    /\ UNCHANGED <<mFail, mMsgs>>
    /\ UNCHANGED <<chatVars, toolVars, agentVars, baseVars, classVars, authVars, storeVars>>

\* The reply was sent; suggestion_agent.send_prompt is called.
M_ReplyDone ==
    /\ mPc = "reply"
    /\ \E o \in MSendOutcomes :
        IF o = "ok"
        THEN /\ mOut' = Append(mOut, "reply")
             /\ mPc' = "suggest"
             /\ UNCHANGED mClosed
        ELSE /\ MDisconnected
             /\ UNCHANGED mOut
    /\ UNCHANGED <<mFail, mLogged, mWs, mMsgs>>
    /\ UNCHANGED <<chatVars, toolVars, agentVars, baseVars, classVars, authVars, storeVars>>

\* The suggestion agent returned: the actions event send is started.
M_SuggestOk ==
    /\ mPc = "suggest"
    /\ mPc' = "actions"
    /\ UNCHANGED <<mFail, mOut, mLogged, mClosed, mWs, mMsgs>>
    /\ UNCHANGED <<chatVars, toolVars, agentVars, baseVars, classVars, authVars, storeVars>>

\* The suggestion agent raised, in the else clause of the inner try:
\* ModelHTTPError reaches the outer handler, anything else leaves the function.
M_SuggestFail(kind) ==
    /\ mPc = "suggest"
    /\ IF kind = "http"
       THEN /\ mPc' = "oops"
            /\ UNCHANGED mWs
       ELSE /\ mPc' = "done"
            /\ mWs' = "server_closed"
    /\ UNCHANGED <<mFail, mOut, mLogged, mClosed, mMsgs>>
    /\ UNCHANGED <<chatVars, toolVars, agentVars, baseVars, classVars, authVars, storeVars>>

M_ActionsDone ==
    /\ mPc = "actions"
    /\ \E o \in MSendOutcomes :
        IF o = "ok"
        THEN /\ mOut' = Append(mOut, "actions")
             /\ mPc' = "recv"
             /\ UNCHANGED mClosed
        ELSE /\ MDisconnected
             /\ UNCHANGED mOut
    /\ UNCHANGED <<mFail, mLogged, mWs, mMsgs>>
    /\ UNCHANGED <<chatVars, toolVars, agentVars, baseVars, classVars, authVars, storeVars>>

\* The greeting before the loop (lines 41-69): typing, a "thinking" using
\* event, the first suggestions from the suggestion agent, the readme reply
\* and the actions event. These statements are outside the try block: an
\* exception here leaves the function without closing the socket.
M_GreetSend ==
    /\ mPc \in {"g_typing", "g_using", "g_reply", "g_actions"}
    /\ \E o \in MSendOutcomes :
        IF o = "ok"
        THEN /\ mOut' = Append(mOut, mPc)
             /\ mPc' = CASE mPc = "g_typing" -> "g_using"
                         [] mPc = "g_using" -> "g_suggest"
                         [] mPc = "g_reply" -> "g_actions"
                         [] mPc = "g_actions" -> "recv"
        ELSE /\ mPc' = "done"
             /\ UNCHANGED mOut
    /\ UNCHANGED <<mFail, mLogged, mClosed, mWs, mMsgs>>
    /\ UNCHANGED <<chatVars, toolVars, agentVars, baseVars, classVars, authVars, storeVars>>

\* asyncio.gather(suggestion_agent.send_prompt(...), asyncio.sleep(2)) returned.
M_GreetSuggestOk ==
    /\ mPc = "g_suggest"
    /\ mPc' = "g_reply"
    /\ UNCHANGED <<mFail, mOut, mLogged, mClosed, mWs, mMsgs>>
    /\ UNCHANGED <<chatVars, toolVars, agentVars, baseVars, classVars, authVars, storeVars>>

\* The first suggestion call raised: the exception leaves the function.
M_GreetSuggestFail ==
    /\ mPc = "g_suggest"
    /\ mPc' = "done"
    /\ UNCHANGED <<mFail, mOut, mLogged, mClosed, mWs, mMsgs>>
    /\ UNCHANGED <<chatVars, toolVars, agentVars, baseVars, classVars, authVars, storeVars>>

\* The client closes its end of the learn-more socket.
M_ClientDisconnect ==
    /\ mWs = "open"
    /\ mWs' = "gone"
    /\ UNCHANGED <<mPc, mFail, mOut, mLogged, mClosed, mMsgs>>
    /\ UNCHANGED <<chatVars, toolVars, agentVars, baseVars, classVars, authVars, storeVars>>

----------------------------------------------------------------------------
\* BaseChat.listen (do/chats/base_chat.py) serving a LoginChat connection:
\* every message with a handler gets a task of its own, which listen does
\* not await.

MaxBaseMsgs == 3    \* inbound frames consumed by one LoginChat connection

HandlerEnded == {"done", "failed"}

BaseFrames == {"prompt", "unknown", "nokind", "text"}

\* Outcomes of awaiting websocket.send_json in the connection's present state.
BSendOutcomes ==
    IF bWs = "disconnected" THEN {"raise"}
    ELSE IF bGone THEN {"ok", "raise"}
    ELSE {"ok"}

\* listen's finally clause: the socket is closed unless already disconnected.
BFinalise ==
    /\ bPc' = IF bWs # "disconnected" THEN "closing" ELSE "done"
    /\ bWs' = "disconnected"

\* LoginChat.on_connect, a task of its own: the welcome reply is sent.
B_OnConnect ==
    /\ bOc = "start"
    /\ bOc' = "reply"
    /\ UNCHANGED <<bPc, bHandlers, bMsgs, bWs, bGone>>
    /\ UNCHANGED <<chatVars, toolVars, learnVars, agentVars, classVars, authVars, storeVars>>

B_OnConnectDone ==
    /\ bOc = "reply"
    /\ \E o \in BSendOutcomes : bOc' = IF o = "ok" THEN "done" ELSE "failed"
    /\ UNCHANGED <<bPc, bHandlers, bMsgs, bWs, bGone>>
    /\ UNCHANGED <<chatVars, toolVars, learnVars, agentVars, classVars, authVars, storeVars>>

\* receive_json returned a message of kind "prompt": loop.create_task(
\* handler(data)); listen goes straight back to receive_json.
B_RecvPrompt(k) ==
    /\ bPc = "recv" /\ ~bGone /\ bMsgs < MaxBaseMsgs
    /\ k = "prompt"
    /\ bMsgs' = bMsgs + 1
    /\ bHandlers' = Append(bHandlers, "created")
    /\ UNCHANGED <<bPc, bWs, bGone, bOc>>
    /\ UNCHANGED <<chatVars, toolVars, learnVars, agentVars, classVars, authVars, storeVars>>

\* A message without kind or with a kind that has no handler: the error event
\* is handed to send_json, whose task listen does not await.
B_RecvInvalid(k) ==
    /\ bPc = "recv" /\ ~bGone /\ bMsgs < MaxBaseMsgs
    /\ k \in {"unknown", "nokind"}
    /\ bMsgs' = bMsgs + 1
    /\ UNCHANGED <<bPc, bHandlers, bWs, bGone, bOc>>
    /\ UNCHANGED <<chatVars, toolVars, learnVars, agentVars, classVars, authVars, storeVars>>

\* A frame that is not JSON: receive_json raises; there is no except clause,
\* so the finally clause runs and the exception leaves listen.
B_RecvBad(k) ==
    /\ bPc = "recv" /\ ~bGone /\ bMsgs < MaxBaseMsgs
    /\ k = "text"
    /\ bMsgs' = bMsgs + 1
    /\ BFinalise
    /\ UNCHANGED <<bHandlers, bGone, bOc>>
    /\ UNCHANGED <<chatVars, toolVars, learnVars, agentVars, classVars, authVars, storeVars>>

\* The client went away: receive_json raises WebSocketDisconnect.
B_Disconnected ==
    /\ bPc = "recv" /\ bGone
    /\ BFinalise
    /\ UNCHANGED <<bHandlers, bMsgs, bGone, bOc>>
    /\ UNCHANGED <<chatVars, toolVars, learnVars, agentVars, classVars, authVars, storeVars>>

B_CloseDone ==
    /\ bPc = "closing"
    /\ bPc' = "done"
    /\ UNCHANGED <<bHandlers, bMsgs, bWs, bGone, bOc>>
    /\ UNCHANGED <<chatVars, toolVars, learnVars, agentVars, classVars, authVars, storeVars>>

B_ClientDisconnect ==
    /\ bPc # "idle" /\ ~bGone
    /\ bGone' = TRUE
    /\ UNCHANGED <<bPc, bHandlers, bMsgs, bWs, bOc>>
    /\ UNCHANGED <<chatVars, toolVars, learnVars, agentVars, classVars, authVars, storeVars>>

\* LoginChat.prompt_handler, run as handler task h: the task starts and
\* awaits the typing send.
H_Start(h) ==
    /\ h \in 1..Len(bHandlers) /\ bHandlers[h] = "created"
    /\ bHandlers' = [bHandlers EXCEPT ![h] = "typing"]
    /\ UNCHANGED <<bPc, bMsgs, bWs, bGone, bOc>>
    /\ UNCHANGED <<chatVars, toolVars, learnVars, agentVars, classVars, authVars, storeVars>>

\* The typing send completed: agent.send_prompt(data["prompt"]) is called.
H_TypingDone(h) ==
    /\ h \in 1..Len(bHandlers) /\ bHandlers[h] = "typing"
    /\ \E o \in BSendOutcomes :
        bHandlers' = [bHandlers EXCEPT ![h] = IF o = "ok" THEN "model" ELSE "failed"]
    /\ UNCHANGED <<bPc, bMsgs, bWs, bGone, bOc>>
    /\ UNCHANGED <<chatVars, toolVars, learnVars, agentVars, classVars, authVars, storeVars>>

\* agent.send_prompt returned: the reply send is started.
H_ModelOk(h) ==
    /\ h \in 1..Len(bHandlers) /\ bHandlers[h] = "model"
    /\ bHandlers' = [bHandlers EXCEPT ![h] = "reply"]
    /\ UNCHANGED <<bPc, bMsgs, bWs, bGone, bOc>>
    /\ UNCHANGED <<chatVars, toolVars, learnVars, agentVars, classVars, authVars, storeVars>>

\* agent.send_prompt raised: the exception ends the handler task.
H_ModelFail(h) ==
    /\ h \in 1..Len(bHandlers) /\ bHandlers[h] = "model"
    /\ bHandlers' = [bHandlers EXCEPT ![h] = "failed"]
    /\ UNCHANGED <<bPc, bMsgs, bWs, bGone, bOc>>
    /\ UNCHANGED <<chatVars, toolVars, learnVars, agentVars, classVars, authVars, storeVars>>

H_ReplyDone(h) ==
    /\ h \in 1..Len(bHandlers) /\ bHandlers[h] = "reply"
    /\ \E o \in BSendOutcomes :
        bHandlers' = [bHandlers EXCEPT ![h] = IF o = "ok" THEN "done" ELSE "failed"]
    /\ UNCHANGED <<bPc, bMsgs, bWs, bGone, bOc>>
    /\ UNCHANGED <<chatVars, toolVars, learnVars, agentVars, classVars, authVars, storeVars>>

----------------------------------------------------------------------------
\* Agent.__init_subclass__ and Agent.__init__ (flowstate/agents/base_agent.py)
\* for one class T(Agent).

\* Attributes a class body may declare. "limit" is a class constant (not
\* callable), "_find" a private helper, "send_prompt" an override of a method
\* of Agent.
AttrNames == {"_find", "create_task", "delete_task", "limit", "send_prompt"}

\* Position of a name in the sorted order of Python strings ("_" sorts
\* before the lowercase letters).
AlphaRank(n) ==
    CASE n = "_find" -> 1
      [] n = "create_task" -> 2
      [] n = "delete_task" -> 3
      [] n = "limit" -> 4
      [] n = "send_prompt" -> 5
      [] n = "update_task" -> 6

\* dir(Agent): the public names of the base class among AttrNames.
SuperAttrs == {"send_prompt"}

RECURSIVE SortedNames(_)
SortedNames(S) ==
    IF S = {} THEN <<>>
    ELSE LET m == CHOOSE n \in S : \A o \in S : AlphaRank(n) <= AlphaRank(o)
         IN <<m>> \o SortedNames(S \ {m})

Range(q) == {q[n] : n \in 1..Len(q)}

\* not name.startswith("_") and name not in super_attrs and
\* callable(getattr(cls, name)): "limit" is the attribute that is not callable.
IsTool(n) == n # "_find" /\ n \notin SuperAttrs /\ n # "limit"

\* The loop of __init_subclass__ over dir(cls) (the names of the class and of
\* its bases, sorted), appending to the fresh list.
InitSubclassTools(decl) == SelectSeq(SortedNames(Range(decl) \cup SuperAttrs), IsTool)

\* All class bodies: sequences of distinct attribute names.
RECURSIVE Declarations(_)
Declarations(S) ==
    {<<>>} \cup UNION {{<<n>> \o d : d \in Declarations(S \ {n})} : n \in S}

\* The class statement completes: __init_subclass__ runs.
K_Define ==
    /\ kPc = "declared"
    /\ kTools' = InitSubclassTools(kDecl)
    /\ kPrompt' = kDoc
    /\ kPc' = "defined"
    /\ UNCHANGED <<kDecl, kDoc, kErr, kSub>>
    /\ UNCHANGED <<chatVars, toolVars, learnVars, agentVars, baseVars, authVars, storeVars>>

\* __init_subclass__ for S(T): cls.tools, inherited from T, is not Agent.tools,
\* so no fresh list is made and the loop over dir(S) appends to the list
\* object that T.tools refers to.
InheritedSubclassTools(tools, decl, sub) ==
    tools \o SelectSeq(SortedNames(Range(decl) \cup Range(sub) \cup SuperAttrs), IsTool)

\* class S(T) with body d is defined after T.
K_DefineSubclass(d) ==
    /\ kPc \in {"defined", "constructed", "raised"} /\ kSub = "none"
    /\ kTools' = InheritedSubclassTools(kTools, kDecl, d)
    /\ kSub' = "subclass"
    /\ UNCHANGED <<kDecl, kDoc, kPc, kPrompt, kErr>>
    /\ UNCHANGED <<chatVars, toolVars, learnVars, agentVars, baseVars, authVars, storeVars>>

\* class U(Agent) is defined after T: cls.tools is Agent.tools, so U gets a
\* list of its own and T is not touched.
K_DefineSibling ==
    /\ kPc \in {"defined", "constructed", "raised"} /\ kSub = "none"
    /\ kSub' = "sibling"
    /\ UNCHANGED <<kDecl, kDoc, kPc, kTools, kPrompt, kErr>>
    /\ UNCHANGED <<chatVars, toolVars, learnVars, agentVars, baseVars, authVars, storeVars>>

\* T() is called: Agent.__init__ concatenates the fixed prefix and
\* self.system_prompt, which raises TypeError when it is None.
K_Construct ==
    /\ kPc = "defined"
    /\ IF kPrompt = "None"
       THEN kPc' = "raised" /\ kErr' = "TypeError"
       ELSE kPc' = "constructed" /\ UNCHANGED kErr
    /\ UNCHANGED <<kDecl, kDoc, kTools, kPrompt, kSub>>
    /\ UNCHANGED <<chatVars, toolVars, learnVars, agentVars, baseVars, authVars, storeVars>>

----------------------------------------------------------------------------
\* flowstate/auth.py: generate_access_token / verify_access_token and
\* generate_login_token / verify_login_token.
\*
\* A payload is a sequence of bytes. A byte is <<"b", n>> (a byte of the
\* big-endian user id), <<"c", ch>> (a character of a text), <<"h", key,
\* body, i>> (the i-th hex digit of the HMAC-SHA256 of body under key: HMAC
\* is taken to be collision free) or <<"x", n>> (a byte that is not valid
\* UTF-8).

IdBytes == 8        \* user_id.to_bytes(8, "big")
SigLen == 64        \* length of an HMAC-SHA256 hexdigest

\* datetime.now(UTC).isoformat() of a time long ago.
OldStamp == <<"2", "0", "2", "4">>

\* str.encode() and bytes.decode() of a text.
TextBytes(text) == [n \in 1..Len(text) |-> <<"c", text[n]>>]
CharsOf(bytes) == [n \in 1..Len(bytes) |-> bytes[n][2]]
\* bytes.decode() succeeds (UnicodeDecodeError, a ValueError, otherwise).
IsText(bytes) == \A n \in 1..Len(bytes) : bytes[n][1] # "x"

\* n.to_bytes(w, "big")
RECURSIVE ToBytes(_, _)
ToBytes(n, w) ==
    IF w = 0 THEN <<>> ELSE Append(ToBytes(n \div 256, w - 1), <<"b", n % 256>>)

\* int.from_bytes(bytes, "big"); characters and hex digits count as their
\* ASCII codes.
RECURSIVE FromBytes(_)
FromBytes(bs) ==
    LET e == bs[Len(bs)]
        value == CASE e[1] = "b" -> e[2]
                   [] e[1] = "c" -> 99
                   [] e[1] = "h" -> 102
                   [] e[1] = "x" -> 255
    IN  IF bs = <<>> THEN 0
        ELSE FromBytes(SubSeq(bs, 1, Len(bs) - 1)) * 256 + value

\* hmac.new(key, body, "sha256").hexdigest()
HmacHex(key, body) == [n \in 1..SigLen |-> <<"h", key, body, n>>]

\* The Python slice p[start:stop]; a negative index counts from the end and
\* indices beyond the ends are clipped.
PySlice(p, start, stop) ==
    LET clip(n) == IF n < 0 THEN (IF Len(p) + n < 0 THEN 0 ELSE Len(p) + n)
                   ELSE (IF n > Len(p) THEN Len(p) ELSE n)
    IN  SubSeq(p, clip(start) + 1, clip(stop))

\* base64.urlsafe_b64encode(payload).decode(), and urlsafe_b64decode of what
\* is presented: a well-formed token, a string that cannot be decoded
\* (binascii.Error, a ValueError) or something that is not a string.
B64Encode(payload) == [form |-> "ok", payload |-> payload]
B64Decode(token) ==
    CASE token.form = "ok" -> [exc |-> "none", bytes |-> token.payload]
      [] token.form = "undecodable" -> [exc |-> "ValueError", bytes |-> <<>>]
      [] token.form = "not_a_string" -> [exc |-> "TypeError", bytes |-> <<>>]

\* generate_access_token_signature
AccessTokenSignature(uid, timestamp, key) ==
    HmacHex(key, ToBytes(uid, IdBytes) \o TextBytes(timestamp))

\* generate_access_token, for the timestamp read from the clock.
GenerateAccessToken(uid, timestamp, key) ==
    B64Encode(ToBytes(uid, IdBytes) \o TextBytes(timestamp)
              \o AccessTokenSignature(uid, timestamp, key))

\* generate_login_token
GenerateLoginToken(email, key) ==
    B64Encode(TextBytes(email) \o HmacHex(key, TextBytes(email)))

\* signature == expected_signature
SignatureIgnored(signature, expected) == TRUE
SignatureMatches(signature, expected) == signature = expected

\* with suppress(ValueError, TypeError): ...  followed by return None. r is
\* the outcome of the block: the value returned (<<>> is None, <<v>> is v)
\* or the exception raised.
Suppress(r) ==
    IF r.exc \in {"ValueError", "TypeError"} THEN [exc |-> "none", ret |-> <<>>] ELSE r

\* verify_access_token
VerifyAccessToken(token, key) ==
    LET d == B64Decode(token)
        payload == d.bytes
        uid == FromBytes(PySlice(payload, 0, IdBytes))
        stamp == PySlice(payload, IdBytes, 0 - SigLen)
        signature == PySlice(payload, 0 - SigLen, Len(payload))
    IN  Suppress(
          IF d.exc # "none" THEN [exc |-> d.exc, ret |-> <<>>]
          ELSE IF ~IsText(stamp) \/ ~IsText(signature)
               THEN [exc |-> "ValueError", ret |-> <<>>]
          ELSE [exc |-> "none",
                ret |-> IF SignatureMatches(signature,
                                            AccessTokenSignature(uid, CharsOf(stamp), key))
                        THEN <<uid>> ELSE <<>>])

\* verify_login_token
VerifyLoginToken(token, key) ==
    LET d == B64Decode(token)
        payload == d.bytes
        email == PySlice(payload, 0, 0 - SigLen)
        signature == PySlice(payload, 0 - SigLen, Len(payload))
    IN  Suppress(
          IF d.exc # "none" THEN [exc |-> d.exc, ret |-> <<>>]
          ELSE IF ~IsText(payload) THEN [exc |-> "ValueError", ret |-> <<>>]
          ELSE [exc |-> "none",
                ret |-> IF SignatureMatches(signature, HmacHex(key, email))
                        THEN <<CharsOf(email)>> ELSE <<>>])

\* The token as it is presented for verification: unaltered, with one byte
\* replaced (the low byte of the user id or the first character of the
\* email, the first character of the timestamp, the last digit of the
\* signature), cut short, or not a token at all.
AlterToken(kind, alt, token) ==
    LET p == token.payload
        at == CASE alt = "tamper_subject" -> IF kind = "access" THEN IdBytes ELSE 1
                [] alt = "tamper_stamp" -> IdBytes + 1
                [] OTHER -> Len(p)
        e == p[at]
        tampered == CASE e[1] = "b" -> <<"b", (e[2] + 1) % 256>>
                      [] e[1] = "c" -> <<"c", "~">>
                      [] e[1] = "h" -> <<"h", "forged", <<>>, e[4]>>
    IN  CASE alt = "none" -> token
          [] alt \in {"tamper_subject", "tamper_stamp", "tamper_signature"} ->
                [token EXCEPT !.payload[at] = tampered]
          [] alt = "truncated" -> [token EXCEPT !.payload = SubSeq(p, 1, Len(p) - 1)]
          [] alt = "empty" -> [token EXCEPT !.payload = <<>>]
          [] alt = "short" -> [token EXCEPT !.payload = TextBytes(<<"t", "o">>)]
          [] alt = "binary" -> [token EXCEPT !.payload = << <<"x", 255>>, <<"x", 254>> >>]
          [] alt = "undecodable" -> [form |-> "undecodable", payload |-> <<>>]
          [] alt = "not_a_string" -> [form |-> "not_a_string", payload |-> <<>>]

\* generate_access_token(user_id, secret_key) / generate_login_token(email,
\* secret_key) is called.
Au_Generate ==
    /\ aPc = "start"
    /\ aToken' = IF aKind = "access"
                 THEN GenerateAccessToken(aSubject, aStamp, aKey)
                 ELSE GenerateLoginToken(aSubject, aKey)
    /\ aPc' = "issued"
    /\ UNCHANGED <<aKind, aSubject, aKey, aStamp, aAlter, aVKey, aResult, aErr>>
    /\ UNCHANGED <<chatVars, toolVars, learnVars, agentVars, baseVars, classVars, storeVars>>

\* The token comes back, possibly altered, and is about to be verified under
\* some key. A login token has no timestamp to tamper with.
Au_Present(alt, key) ==
    /\ aPc = "issued"
    /\ (alt = "tamper_stamp" => aKind = "access")
    /\ aAlter' = alt
    /\ aToken' = AlterToken(aKind, alt, aToken)
    /\ aVKey' = key
    /\ aPc' = "presented"
    /\ UNCHANGED <<aKind, aSubject, aKey, aStamp, aResult, aErr>>
    /\ UNCHANGED <<chatVars, toolVars, learnVars, agentVars, baseVars, classVars, storeVars>>

\* verify_access_token(token, secret_key) / verify_login_token(token,
\* secret_key) is called and returns or raises.
Au_Verify ==
    /\ aPc = "presented"
    /\ LET r == IF aKind = "access" THEN VerifyAccessToken(aToken, aVKey)
                ELSE VerifyLoginToken(aToken, aVKey)
       IN  aResult' = r.ret /\ aErr' = r.exc
    /\ aPc' = "verified"
    /\ UNCHANGED <<aKind, aSubject, aKey, aStamp, aAlter, aToken, aVKey>>
    /\ UNCHANGED <<chatVars, toolVars, learnVars, agentVars, baseVars, classVars, storeVars>>

----------------------------------------------------------------------------
\* The projects and tasks tables (flowstate/db_models.py) under the DoAgent
\* tools create_project, delete_project, delete_task_from_project and
\* create_task (do/agents/do_agent.py) and FlowstateChat's complete_task
\* messages, for two users with one connection each.

MaxProjects == 2
MaxStoreTasks == 2

\* str.lower()
Lower(name) ==
    CASE name = "Home" -> "home"
      [] name = "Work" -> "work"
      [] OTHER -> name

NoProject == [id |-> 0, user_id |-> "", name |-> ""]

\* Database.get_projects_by_user
GetProjectsByUser(u) == {p \in sProjects : p.user_id = u}

\* Database.get_project: the row with that id, whoever owns it.
GetProject(pid) ==
    IF \E p \in sProjects : p.id = pid
    THEN CHOOSE p \in sProjects : p.id = pid
    ELSE NoProject

\* DoAgent._find_project_by_name: the first of the user's rows whose name
\* matches ignoring case.
FindProjectByName(u, name) ==
    LET found == {p \in GetProjectsByUser(u) : Lower(p.name) = Lower(name)}
    IN  IF found = {} THEN NoProject
        ELSE CHOOSE p \in found : \A q \in found : p.id <= q.id

\* DoAgent._find_task_by_name: the first task of the project with that title
\* (0 when there is none).
FindTaskByName(pid, title) ==
    LET found == {t \in sTasks : t.project_id = pid /\ Lower(t.title) = Lower(title)}
    IN  IF found = {} THEN 0
        ELSE (CHOOSE t \in found : \A q \in found : t.id <= q.id).id

\* Database.delete_task
DbDeleteTask(stored, id) == {t \in stored : t.id # id}

\* FlowstateChat.on_connect for user u with path parameter project_id = pid
\* (0: none): the agent keeps project.id when the row exists.
S_Connect(u, pid) ==
    /\ sCurrent' = [sCurrent EXCEPT ![u] = GetProject(pid).id]
    /\ sLast' = [op |-> "connect", user |-> u]
    /\ UNCHANGED <<sProjects, sTasks, sNextProject, sNextTask>>
    /\ UNCHANGED <<chatVars, toolVars, learnVars, agentVars, baseVars, classVars, authVars>>

\* DoAgent.create_project(name) on u's connection.
S_CreateProject(u, name) ==
    /\ IF name \in {p.name : p \in GetProjectsByUser(u)}
       THEN UNCHANGED <<sProjects, sNextProject>>
       ELSE /\ sNextProject <= MaxProjects
            /\ sProjects' = sProjects \cup
                                {[id |-> sNextProject, user_id |-> u, name |-> name]}
            /\ sNextProject' = sNextProject + 1
    /\ sLast' = [op |-> "tool", user |-> u]
    /\ UNCHANGED <<sTasks, sNextTask, sCurrent>>
    /\ UNCHANGED <<chatVars, toolVars, learnVars, agentVars, baseVars, classVars, authVars>>

\* DoAgent.delete_project(project_name) on u's connection;
\* Database.delete_project deletes the project's tasks, then the project.
S_DeleteProject(u, name) ==
    /\ LET found == FindProjectByName(u, name)
       IN  IF found # NoProject
           THEN /\ sTasks' = {t \in sTasks : t.project_id # found.id}
                /\ sProjects' = {p \in sProjects : p.id # found.id}
           ELSE UNCHANGED <<sProjects, sTasks>>
    /\ sLast' = [op |-> "tool", user |-> u]
    /\ UNCHANGED <<sNextProject, sNextTask, sCurrent>>
    /\ UNCHANGED <<chatVars, toolVars, learnVars, agentVars, baseVars, classVars, authVars>>

\* DoAgent.delete_task_from_project(project_name, task_title) on u's
\* connection.
S_DeleteTaskFromProject(u, name, title) ==
    /\ LET found == FindProjectByName(u, name)
           task == FindTaskByName(found.id, title)
       IN  IF found # NoProject /\ task # 0
           THEN sTasks' = DbDeleteTask(sTasks, task)
           ELSE UNCHANGED sTasks
    /\ sLast' = [op |-> "tool", user |-> u]
    /\ UNCHANGED <<sProjects, sNextProject, sNextTask, sCurrent>>
    /\ UNCHANGED <<chatVars, toolVars, learnVars, agentVars, baseVars, classVars, authVars>>

\* DoAgent.create_task(project_name, title) on u's connection; the name ""
\* stands for a project_name that is None or empty. The task is inserted
\* under project_id (0: "Project not found.").
S_CreateTask(u, name, title) ==
    /\ LET project_id == IF name # "" THEN FindProjectByName(u, name).id
                         ELSE sCurrent[u]
       IN  IF project_id # 0
           THEN /\ sNextTask <= MaxStoreTasks
                /\ sTasks' = sTasks \cup
                       {[id |-> sNextTask, project_id |-> project_id, title |-> title]}
                /\ sNextTask' = sNextTask + 1
           ELSE UNCHANGED <<sTasks, sNextTask>>
    /\ sLast' = [op |-> "tool", user |-> u]
    /\ UNCHANGED <<sProjects, sNextProject, sCurrent>>
    /\ UNCHANGED <<chatVars, toolVars, learnVars, agentVars, baseVars, classVars, authVars>>

\* FlowstateChat.complete_task_handler for {"task_id": tid} on u's
\* connection.
S_CompleteTask(u, tid) ==
    /\ sTasks' = DbDeleteTask(sTasks, tid)
    /\ sLast' = [op |-> "complete_task", user |-> u]
    /\ UNCHANGED <<sProjects, sNextProject, sNextTask, sCurrent>>
    /\ UNCHANGED <<chatVars, toolVars, learnVars, agentVars, baseVars, classVars, authVars>>

----------------------------------------------------------------------------
\* Initial states and specifications.

ChatIdle ==
    /\ project = FALSE /\ nprojects = 0 /\ agent = FALSE
    /\ ocPc = "start" /\ lPc = "recv" /\ lMsg = NoMsg /\ lExc = "none"
    /\ tasks = [i \in TaskIds |-> "none"] /\ nudge_task = 0
    /\ turnOut = <<>> /\ logged = FALSE
    /\ wsApp = "connected" /\ clientGone = FALSE
    /\ dbTasks = StoredTaskIds /\ msgs = 0
    /\ arrival = NoArrival
    /\ user_id = TRUE /\ closes = 0 /\ dbLog = <<>>

ToolIdle ==
    /\ tPc = "idle" /\ tTool = "create_project" /\ tArgs = <<>> /\ tBody = "ok"
    /\ tChan = FALSE /\ tBound = <<>> /\ tLabel = <<>> /\ tReported = <<>>
    /\ tBodyRuns = 0 /\ tResult = <<"none">> /\ tRaised = "none"

AgentIdle ==
    /\ history = <<>> /\ calls = [c \in CallerIds |-> IdleCall] /\ nCalls = 0

LearnIdle ==
    /\ mPc = "idle" /\ mFail = "none" /\ mOut = <<>> /\ mLogged = FALSE
    /\ mClosed = FALSE /\ mWs = "open" /\ mMsgs = 0

BaseIdle ==
    /\ bPc = "idle" /\ bHandlers = <<>> /\ bMsgs = 0 /\ bWs = "connected" /\ bGone = FALSE
    /\ bOc = "start"

StoreIdle ==
    /\ sProjects = {} /\ sTasks = {} /\ sNextProject = 1 /\ sNextTask = 1
    /\ sCurrent = [u \in {"ann", "bob"} |-> 0] /\ sLast = [op |-> "idle", user |-> "ann"]

AuthIdle ==
    /\ aPc = "idle" /\ aKind = "access" /\ aSubject = 0 /\ aKey = "k1"
    /\ aStamp = OldStamp /\ aAlter = "none" /\ aToken = B64Encode(<<>>)
    /\ aVKey = "k1" /\ aResult = <<>> /\ aErr = "none"

ClassIdle ==
    /\ kDecl = <<>> /\ kDoc = "missing" /\ kPc = "idle" /\ kTools = <<>>
    /\ kPrompt = "" /\ kErr = "none" /\ kSub = "none"

\* State after BaseChat.create_chat: the socket accepted, FlowstateChat
\* constructed (with or without a verified session token), the on_connect task created, listen
\* about to await its first frame.
InitChat ==
    /\ project \in BOOLEAN /\ nprojects \in 0..1 /\ (project => nprojects = 1)
    /\ agent = FALSE
    /\ ocPc = "start" /\ lPc = "recv" /\ lMsg = NoMsg /\ lExc = "none"
    /\ tasks = [i \in TaskIds |-> "none"] /\ nudge_task = 0
    /\ turnOut = <<>> /\ logged = FALSE
    /\ wsApp = "connected" /\ clientGone = FALSE
    /\ dbTasks = StoredTaskIds /\ msgs = 0
    /\ arrival = NoArrival
    /\ user_id \in BOOLEAN /\ closes = 0 /\ dbLog = <<>>
    /\ ToolIdle /\ LearnIdle /\ AgentIdle /\ BaseIdle /\ ClassIdle
    /\ AuthIdle /\ StoreIdle

NextChat ==
    \/ OC_Unauthorized \/ OC_StartProject \/ OC_StartNoProject \/ OC_TypingDone \/ OC_ModelOk
    \/ OC_ModelFail \/ OC_SleepDone \/ OC_ReplyDone
    \/ \E i \in TaskIds : N_Fire(i)
    \/ \E i \in TaskIds : N_TypingDone(i)
    \/ \E i \in TaskIds : N_ModelOk(i)
    \/ \E i \in TaskIds : N_ModelFail(i)
    \/ \E i \in TaskIds : N_ReplyDone(i)
    \/ \E f \in Frames : L_RecvCompleteTask(f)
    \/ \E f \in Frames : L_RecvCompleteTaskNoId(f)
    \/ \E f \in Frames : L_RecvPrompt(f)
    \/ \E f \in Frames : L_RecvInvalid(f)
    \/ \E f \in Frames : L_RecvRawText(f)
    \/ \E f \in Frames : L_RecvText(f)
    \/ L_ErrSendDone \/ L_PTypingDone \/ L_PModelOk \/ L_PModelFail \/ L_PReplyDone
    \/ L_PUsing \/ L_TUsing
    \/ L_TTypingDone \/ L_TModelOk \/ L_TModelFail \/ L_TReplyDone
    \/ L_Disconnected \/ L_CloseDone \/ ClientDisconnect

SpecChat == InitChat /\ [][NextChat]_vars

\* One run_tool call for every tool, argument set, body behaviour and
\* reporting-channel attachment.
InitTool ==
    /\ tPc = "call"
    /\ tTool \in {"create_project", "delete_task_from_project", "create_task", "get_project_names"} /\ tArgs \in ArgSets /\ tBody \in {"ok", "raise", "cancel"}
    /\ tChan \in BOOLEAN
    /\ tBound = <<>> /\ tLabel = <<>> /\ tReported = <<>>
    /\ tBodyRuns = 0 /\ tResult = <<"none">> /\ tRaised = "none"
    /\ ChatIdle /\ LearnIdle /\ AgentIdle /\ BaseIdle /\ ClassIdle
    /\ AuthIdle /\ StoreIdle

NextTool == T_Bind \/ T_Label \/ T_Report \/ T_Body

SpecTool == InitTool /\ [][NextTool]_vars

\* The learn-more connection after websocket.accept() and the construction
\* of the two agents.
InitLearn ==
    /\ mPc = "g_typing" /\ mFail = "none" /\ mOut = <<>> /\ mLogged = FALSE
    /\ mClosed = FALSE /\ mWs = "open" /\ mMsgs = 0
    /\ ChatIdle /\ ToolIdle /\ AgentIdle /\ BaseIdle /\ ClassIdle
    /\ AuthIdle /\ StoreIdle

NextLearn ==
    \/ M_Recv \/ M_RecvDisconnect \/ M_ModelOk
    \/ \E k \in ModelFailures : M_ModelFail(k)
    \/ M_ApologyDone \/ M_ReloadDone \/ M_OopsDone \/ M_ReplyDone
    \/ M_SuggestOk
    \/ \E k \in ModelFailures : M_SuggestFail(k)
    \/ M_ActionsDone \/ M_ClientDisconnect
    \/ M_GreetSend \/ M_GreetSuggestOk \/ M_GreetSuggestFail

SpecLearn == InitLearn /\ [][NextLearn]_vars

\* A freshly constructed agent (Agent.__init__: self.history = []).
InitAgent ==
    /\ history = <<>> /\ calls = [c \in CallerIds |-> IdleCall] /\ nCalls = 0
    /\ ChatIdle /\ ToolIdle /\ LearnIdle /\ BaseIdle /\ ClassIdle
    /\ AuthIdle /\ StoreIdle

NextAgent ==
    \/ \E c \in CallerIds, p \in {"p", "q"} : A_Call(c, p)
    \/ \E c \in CallerIds : A_RunOk(c)
    \/ \E c \in CallerIds : A_RunRaise(c)
    \/ \E c \in CallerIds : A_RunCancel(c)

SpecAgent == InitAgent /\ [][NextAgent]_vars

\* State after BaseChat.create_chat for LoginChat: the socket accepted, the
\* on_connect task created, listen about to await its first frame.
InitBase ==
    /\ bPc = "recv" /\ bHandlers = <<>> /\ bMsgs = 0 /\ bWs = "connected"
    /\ bGone = FALSE /\ bOc = "start"
    /\ ChatIdle /\ ToolIdle /\ LearnIdle /\ AgentIdle /\ ClassIdle
    /\ AuthIdle /\ StoreIdle

NextBase ==
    \/ B_OnConnect \/ B_OnConnectDone
    \/ \E k \in BaseFrames : B_RecvPrompt(k)
    \/ \E k \in BaseFrames : B_RecvInvalid(k)
    \/ \E k \in BaseFrames : B_RecvBad(k)
    \/ B_Disconnected \/ B_CloseDone \/ B_ClientDisconnect
    \/ \E h \in 1..MaxBaseMsgs : H_Start(h)
    \/ \E h \in 1..MaxBaseMsgs : H_TypingDone(h)
    \/ \E h \in 1..MaxBaseMsgs : H_ModelOk(h)
    \/ \E h \in 1..MaxBaseMsgs : H_ModelFail(h)
    \/ \E h \in 1..MaxBaseMsgs : H_ReplyDone(h)

SpecBase == InitBase /\ [][NextBase]_vars

\* Every class body over AttrNames with every docstring, before the class
\* statement completes.
InitClass ==
    /\ kDecl \in Declarations(AttrNames) /\ kDoc \in {"None", "", "doc"}
    /\ kPc = "declared" /\ kTools = <<>> /\ kPrompt = "" /\ kErr = "none"
    /\ kSub = "none"
    /\ ChatIdle /\ ToolIdle /\ LearnIdle /\ AgentIdle /\ BaseIdle
    /\ AuthIdle /\ StoreIdle

NextClass ==
    \/ K_Define \/ K_Construct \/ K_DefineSibling
    \/ \E d \in Declarations({"create_task", "update_task"}) : K_DefineSubclass(d)

SpecClass == InitClass /\ [][NextClass]_vars

\* Every user id (or email), key and time of issue, before the token is
\* generated.
InitAuth ==
    /\ aPc = "start" /\ aKind \in {"access", "login"}
    /\ aSubject \in (IF aKind = "access" THEN {0, 1, 42, 300}
                     ELSE {<<"a">>, <<"u", "@", "x">>})
    /\ aKey \in {"k1", "k2"}
    /\ aStamp \in (IF aKind = "access" THEN {OldStamp, <<"2", "0", "2", "6">>}
                   ELSE {OldStamp})
    /\ aAlter = "none" /\ aToken = B64Encode(<<>>)
    /\ aVKey = aKey /\ aResult = <<>> /\ aErr = "none"
    /\ ChatIdle /\ ToolIdle /\ LearnIdle /\ AgentIdle /\ BaseIdle /\ ClassIdle
    /\ StoreIdle

NextAuth ==
    \/ Au_Generate \/ Au_Verify
    \/ \E alt \in {"none", "tamper_subject", "tamper_stamp", "tamper_signature",
                   "truncated", "empty", "short", "binary", "undecodable",
                   "not_a_string"},
          key \in {"k1", "k2"} : Au_Present(alt, key)

SpecAuth == InitAuth /\ [][NextAuth]_vars

\* Empty tables, no connection open yet.
InitStore ==
    /\ sProjects = {} /\ sTasks = {} /\ sNextProject = 1 /\ sNextTask = 1
    /\ sCurrent = [u \in {"ann", "bob"} |-> 0] /\ sLast = [op |-> "none", user |-> "ann"]
    /\ ChatIdle /\ ToolIdle /\ LearnIdle /\ AgentIdle /\ BaseIdle /\ ClassIdle
    /\ AuthIdle

NextStore ==
    \E u \in {"ann", "bob"} :
        \/ \E pid \in 0..MaxProjects : S_Connect(u, pid)
        \/ \E name \in {"Home", "home", "Work"} : S_CreateProject(u, name)
        \/ \E name \in {"Home", "home", "Work"} : S_DeleteProject(u, name)
        \/ \E name \in {"Home", "home", "Work"}, title \in {"hummus", "milk"} :
               S_DeleteTaskFromProject(u, name, title)
        \/ \E name \in {"Home", "home", "Work", ""}, title \in {"hummus", "milk"} :
               S_CreateTask(u, name, title)
        \/ \E tid \in 1..MaxStoreTasks : S_CompleteTask(u, tid)

SpecStore == InitStore /\ [][NextStore]_vars

Spec == SpecChat

----------------------------------------------------------------------------
\* Properties.

\* An apology reply directly followed by the reload command.
ApologyThenReload(out) ==
    \E i \in 1..Len(out) : i < Len(out) /\ out[i] = "apology" /\ out[i + 1] = "reload"

\* C1: on one FlowstateChat connection at most one nudge task is ever in the
\* scheduled-but-not-yet-fired state.
C1_AtMostOnePendingNudge == Cardinality(Pending(tasks)) <= 1

\* C2: on one FlowstateChat connection at most one agent.send_prompt call is
\* inside the model call at any time (on_connect, nudge_user and prompt
\* handling never overlap).
C2_AtMostOneModelCall == InFlight <= 1

\* C3: a send_prompt call whose agent.run raises or is cancelled leaves
\* history as it was; one that succeeds leaves the old history followed by
\* exactly the request and response of that exchange; nothing else changes
\* history.
C3_HistoryAppendOnSuccessOnly ==
    [][ /\ \A c \in CallerIds :
            /\ (calls[c].pc = "running" /\ calls'[c].pc \in {"raised", "cancelled"})
                   => history' = history
            /\ (calls[c].pc = "running" /\ calls'[c].pc = "returned")
                   => /\ IsPrefix(history, history')
                      /\ Len(history') = Len(history) + 2
                      /\ history'[Len(history) + 1] = <<"request", calls[c].prompt>>
                      /\ history'[Len(history) + 2] = <<"response", calls[c].prompt>>
        /\ (\A c \in CallerIds : ~(calls[c].pc = "running" /\ calls'[c].pc # "running"))
               => history' = history ]_vars

\* C3 witness: after a successful exchange a later call has failed, with the
\* successful exchange still in history.
C3_Witness ==
    /\ Len(history) >= 2
    /\ \E c \in CallerIds : calls[c].pc = "raised"
    /\ \E c \in CallerIds : calls[c].pc = "returned"

\* C4: when the body of a wrapped tool raises an exception, run_tool returns
\* the string "Error in tool {name}: {message}" and raises nothing.
C4_ToolErrorIsolated ==
    (tPc = "done" /\ tBodyRuns = 1 /\ tBody = "raise")
        => (tResult = <<"Error in tool", tTool, "boom">> /\ tRaised = "none")

\* C4 witness: a call whose body ran and raised has completed.
C4_Witness ==
    /\ tPc = "done" /\ tBodyRuns = 1 /\ tBody = "raise"
    /\ tResult[1] = "Error in tool"

\* C5: a call with arguments valid for the tool's signature (parameters with
\* defaults may be omitted) runs the body exactly once and returns its result.
C5_ValidCallRunsBodyOnce ==
    (tPc = "done" /\ ValidArgs(tTool, tArgs) /\ tBody = "ok")
        => (tBodyRuns = 1 /\ tResult = BodyResult(tTool, tArgs) /\ tRaised = "none")

\* C6: a call whose arguments cannot be bound to the signature returns an
\* error string, does not run the body and raises nothing.
C6_BadArgsGiveErrorString ==
    (tPc = "done" /\ ~ValidArgs(tTool, tArgs))
        => (tRaised = "none" /\ tBodyRuns = 0 /\ tResult[1] = "Error in tool")

\* C7: when agent.send_prompt fails while FlowstateChat handles a prompt, the
\* client has been sent an apology reply followed by the reload command.
C7_PromptFailureApologyReload ==
    lExc = "model" => ApologyThenReload(turnOut)

\* C8: when agent.send_prompt fails in the learn-more loop (HTTP error or
\* timeout) and the client is still there, then before the next receive the
\* apology and the reload command have been sent in that order, the error has
\* been logged, and the connection is still open.
C8_ModelFailureApologyReload ==
    (mFail # "none" /\ mWs # "gone" /\ mPc \in {"recv", "done"})
        => (ApologyThenReload(mOut) /\ mLogged /\ mPc = "recv" /\ mWs = "open")

\* C9: a failure of the model collaborator is propagated by send_prompt only
\* after an automatic retry, and after at most 3 attempts in total.
C9_RetriesUpToThree ==
    \A c \in CallerIds :
        /\ calls[c].attempts <= 3
        /\ calls[c].pc = "raised" => calls[c].attempts >= 2

\* The nudge task referenced when the message being handled arrived.
ArrivalNow == IF lPc = "recv" THEN Arrival ELSE arrival

\* C10: when the handling of an inbound message completes, the nudge that was
\* pending at its arrival has been cancelled and exactly one fresh nudge is
\* pending.
C10_EveryMessageRenewsNudge ==
    [][ (/\ lPc \in {"recv", "e_send", "p_reply", "t_reply"}
         /\ lPc' = "recv"
         /\ (lPc # "recv" \/ msgs' # msgs))
        => /\ ArrivalNow.pending => tasks'[ArrivalNow.ref] = "cancelled"
           /\ nudge_task' # 0 /\ nudge_task' # ArrivalNow.ref
           /\ Pending(tasks') = {nudge_task'} ]_vars

\* C11: once listen has ended (disconnect or an error leaving the receive
\* loop) no nudge task of the connection is pending or running.
C11_NoNudgeAfterEnd ==
    lPc = "done" => \A i \in TaskIds : tasks[i] \notin TaskLive

\* C12: the server calls close at most once on a connection, and exactly once
\* by the time listen has ended, whichever way the connection terminates.
C12_ClosedExactlyOnce ==
    closes <= 1 /\ (lPc = "done" => closes = 1)

\* One typing event, then using events only, then one reply event.
TypingUsingReply(out) ==
    /\ Len(out) >= 2
    /\ out[1] = "typing" /\ out[Len(out)] = "reply"
    /\ \A n \in 2..(Len(out) - 1) : out[n] = "using"

\* C13: when prompt_handler completes, the events it emitted for the prompt
\* are one typing command, then the using events of the tools invoked during
\* the agent call, then exactly one reply.
C13_PromptEventsInOrder ==
    [][ (lPc = "p_reply" /\ lPc' = "recv") => TypingUsingReply(turnOut') ]_vars

\* C13 witness: a first message of kind prompt was answered with typing, two
\* using events and the reply.
C13_Witness ==
    /\ msgs = 1 /\ lPc = "recv" /\ lExc = "none"
    /\ turnOut = <<"typing", "using", "using", "reply">>

C15_MissingFieldGivesError ==
    lExc = "keyerror"
        => \E n \in 1..Len(turnOut) : turnOut[n] \in {"error_format", "error_type"}

\* C16: a raw non-JSON frame is itself the prompt that is forwarded: between
\* its receipt and the typing command no other frame is consumed.
C16_RawTextIsThePrompt ==
    [][ (lExc = "parse" /\ lPc = "recv_text" /\ lPc' = "t_typing")
            => (msgs' = msgs /\ lMsg' = lMsg) ]_vars

C18_HandlersInSequence ==
    \A h \in 1..Len(bHandlers) : \A g \in 1..(h - 1) :
        bHandlers[h] # "created" => bHandlers[g] \in HandlerEnded

\* C19: for a class with a docstring, after the class statement cls.tools is
\* the public callable attributes beyond the base class, each once, in the
\* order of declaration, and cls.system_prompt is the docstring.
C19_ToolsInDeclarationOrder ==
    (kPc = "defined" /\ kDoc = "doc")
        => (kTools = SelectSeq(kDecl, IsTool) /\ kPrompt = kDoc)

\* C20: no agent of a class with an empty or absent docstring is ever
\* constructed, and the failure is a ConfigurationError.
C20_NoAgentWithoutDocstring ==
    kDoc \in {"None", ""}
        => (kPc # "constructed" /\ (kPc = "raised" => kErr = "ConfigurationError"))

\* C21: once a class is defined, nothing that happens later (defining a
\* sibling or a subclass of it, constructing instances) changes its tool list
\* or its system prompt.
C21_DefinitionFixed ==
    [][ (kPc \in {"defined", "constructed", "raised"}) => (kTools' = kTools /\ kPrompt' = kPrompt) ]_vars

\* C22: verifying an unaltered token under the key it was generated with
\* returns the user id (or email) it was issued for, however old its
\* timestamp; verifying under another key, or a token that was tampered
\* with, truncated or is malformed, returns None; nothing is raised.
C22_TokenRoundTrip ==
    aPc = "verified"
        => /\ aErr = "none"
           /\ IF aAlter = "none" /\ aVKey = aKey
              THEN aResult = <<aSubject>>
              ELSE aResult = <<>>

\* C22 witness: an access token for user 42 with an old timestamp was
\* verified under its own key and returned 42.
C22_Witness ==
    /\ aPc = "verified" /\ aKind = "access" /\ aSubject = 42 /\ aStamp = OldStamp
    /\ aAlter = "none" /\ aVKey = aKey /\ aResult = <<42>>

\* C26: every stored task's project_id refers to an existing project.
C26_TasksHaveProjects ==
    \A t \in sTasks : \E p \in sProjects : p.id = t.project_id

\* C27: a complete_task message deletes only tasks of projects owned by the
\* user of the connection it arrived on.
C27_CompleteTaskOwnTasksOnly ==
    [][ sLast'.op = "complete_task"
            => \A t \in sTasks \ sTasks' :
                   \E p \in sProjects : p.id = t.project_id /\ p.user_id = sLast'.user ]_vars

\* C29: no two projects of one user have names that are equal ignoring case.
C29_NamesUniqueIgnoringCase ==
    \A p, q \in sProjects :
        (p.user_id = q.user_id /\ Lower(p.name) = Lower(q.name)) => p = q

\* A step in which listen cancels the nudge task it refers to: a prompt, a
\* complete_task with a task_id or a frame read by receive_text was taken, or
\* listen left its loop through the finally block.
CancellingStep ==
    \/ (msgs' = msgs + 1 /\ lPc' \in {"p_typing", "t_typing"})
    \/ (msgs' = msgs + 1 /\ lMsg'.k = "complete_task")
    \/ (lPc \notin {"closing", "done"} /\ lPc' \in {"closing", "done"})

\* C23: a nudge task that listen cancels ends as cancelled, not with an
\* exception, and the cancelling step emits no event; once
\* cancelled it stays cancelled, so it sends no reply and schedules no
\* successor.
C23_CancelledNudgeIsSilent ==
    [][ \A i \in TaskIds :
          /\ (tasks[i] = "cancelled") => (tasks'[i] = "cancelled")
          /\ (CancellingStep /\ i = nudge_task /\ tasks[i] \in TaskLive)
                 => /\ tasks'[i] = "cancelled"
                    /\ turnOut' \in {turnOut, <<>>} ]_vars

\* C23 witness: a nudge was cancelled by a message whose
\* handler has finished; the cancelled task is still cancelled and the
\* connection refers to a new pending nudge.
C23_Witness ==
    /\ lPc = "recv" /\ msgs >= 1 /\ nudge_task # 0 /\ tasks[nudge_task] = "sleep"
    /\ \E i \in TaskIds : i # nudge_task /\ tasks[i] = "cancelled"

\* C24: every call with valid arguments runs the tool body once; with a
\* channel attached exactly one using event has been emitted when the body
\* starts, and with no channel none is emitted and a body that returns makes
\* the call return.
C24_OneUsingEventBeforeBody ==
    /\ (tPc = "body" /\ tChan) => Len(tReported) = 1
    /\ (tPc = "done" /\ ValidArgs(tTool, tArgs))
           => /\ tBodyRuns = 1
              /\ tChan => Len(tReported) = 1
              /\ ~tChan => (tReported = <<>> /\ (tBody = "ok" => tRaised = "none"))

\* C25: while the connection is open, a nudge that fired and ends without
\* having been cancelled schedules its successor as it ends.
C25_FiredNudgeSchedulesSuccessor ==
    [][ \A i \in TaskIds :
          (/\ tasks[i] \in {"typing", "model", "reply"}
           /\ tasks'[i] \in {"done", "failed"}
           /\ wsApp = "connected" /\ ~clientGone)
              => (/\ nudge_task' # nudge_task /\ nudge_task' # 0
                  /\ tasks'[nudge_task'] = "sleep") ]_vars

\* C28: on a connection without a verified session token no agent exists, no
\* model call is in flight and no task was deleted.
C28_UnauthenticatedDoesNothing ==
    ~user_id => (~agent /\ InFlight = 0 /\ dbLog = <<>> /\ dbTasks = StoredTaskIds)

\* C30: only a frame that is not JSON is forwarded to the agent as prompt
\* text.
C30_OnlyRawTextForwarded ==
    lPc \in {"t_typing", "t_model", "t_reply"} => lMsg.k = "text"

====
